---- MODULE Spec2Model ----
(***************************************************************************)
(* Model of src/bot.py: the PremiumBot Telegram bot.                       *)
(*                                                                         *)
(* The store is the SQLite database premium_bot.db (tables channels,       *)
(* subscriptions, pending_payments, server_plans); every table is a        *)
(* sequence of rows in rowid order.  context.user_data is a per-user dict, *)
(* the ConversationHandler keeps a per-user dialogue state.  Python str    *)
(* values are sequences of one-character strings, so that lower(),         *)
(* replace(), strip(), split() and int()/float() are computed, not         *)
(* assumed.                                                                *)
(*                                                                         *)
(* Application.builder().token(..).build() (src/bot.py:1196) leaves        *)
(* concurrent_updates off and every handler blocking, so one update is     *)
(* processed to completion before the next one is dispatched: a new        *)
(* handler starts only when pc = "idle".  approve_payment is split at its  *)
(* awaited provider calls so that the order of its effects is visible.     *)
(***************************************************************************)
EXTENDS Integers, Sequences, FiniteSets, TLC

(* ------------------------------ bounds -------------------------------- *)
\* rows the pending_payments table may hold before checkout is cut off
MaxPayments == 2
\* rows the subscriptions table may hold before approve is cut off
MaxSubs == 2
\* rows the server_plans table may hold before a further process start is cut off
MaxPlans == 3
\* the largest value of the clock in the runs of /start
MaxTick == 2

(* ------------------------- program constants -------------------------- *)
\* timedelta(days=30), in clock ticks
THIRTY_DAYS == 30
\* price of the seeded 'Server Premium' plan
SERVER_PRICE == 599

\* the configured administrators: 1 sends commands, 3 is only notified
ADMIN_IDS == {1, 3}
Users == {1, 2}

(* ------------------------------ strings ------------------------------- *)
UpperCase == <<"A","B","C","D","E","F","G","H","I","J","K","L","M",
               "N","O","P","Q","R","S","T","U","V","W","X","Y","Z">>
LowerCase == <<"a","b","c","d","e","f","g","h","i","j","k","l","m",
               "n","o","p","q","r","s","t","u","v","w","x","y","z">>
Digits == <<"0","1","2","3","4","5","6","7","8","9">>

\* str.lower() on one character
lower_char(c) ==
    IF \E i \in 1..26 : UpperCase[i] = c
    THEN LowerCase[CHOOSE i \in 1..26 : UpperCase[i] = c]
    ELSE c

RECURSIVE lower(_)
\* str.lower()
lower(s) == IF s = <<>> THEN <<>> ELSE <<lower_char(Head(s))>> \o lower(Tail(s))

RECURSIVE replace(_, _, _)
\* str.replace(old, new) for a one-character old and new
replace(s, old, new) ==
    IF s = <<>> THEN <<>>
    ELSE <<IF Head(s) = old THEN new ELSE Head(s)>> \o replace(Tail(s), old, new)

RECURSIVE lstrip(_)
lstrip(s) == IF s # <<>> /\ Head(s) = " " THEN lstrip(Tail(s)) ELSE s

RECURSIVE rstrip(_)
rstrip(s) ==
    IF s # <<>> /\ s[Len(s)] = " " THEN rstrip(SubSeq(s, 1, Len(s) - 1)) ELSE s

\* str.strip()
strip(s) == rstrip(lstrip(s))

\* index of the first occurrence of character c in s, 0 when there is none
find(s, c) ==
    IF \E i \in 1..Len(s) : s[i] = c
    THEN CHOOSE i \in 1..Len(s) : s[i] = c /\ \A j \in 1..(i - 1) : s[j] # c
    ELSE 0

\* s.split(c, 1)[1]: what follows the first c
split_once_1(s, c) == SubSeq(s, find(s, c) + 1, Len(s))

RECURSIVE split(_, _)
\* s.split(c): the list of the pieces between the occurrences of c
split(s, c) ==
    IF find(s, c) = 0 THEN <<s>>
    ELSE <<SubSeq(s, 1, find(s, c) - 1)>> \o split(split_once_1(s, c), c)

is_digit(c) == \E i \in 1..10 : Digits[i] = c
digit_val(c) == (CHOOSE i \in 1..10 : Digits[i] = c) - 1

RECURSIVE digits_val(_)
digits_val(s) ==
    IF s = <<>> THEN 0 ELSE 10 * digits_val(SubSeq(s, 1, Len(s) - 1)) + digit_val(s[Len(s)])

all_digits(s) == s # <<>> /\ \A i \in 1..Len(s) : is_digit(s[i])

\* whether int(s) / float(s) returns (TRUE) or raises ValueError (FALSE), for
\* the decimal integer literals with an optional sign the model feeds it
is_number(s) ==
    LET t == strip(s) IN
    IF t # <<>> /\ Head(t) \in {"-", "+"} THEN all_digits(Tail(t)) ELSE all_digits(t)

\* the value int(s) / float(s) returns when is_number(s)
number(s) ==
    LET t == strip(s) IN
    IF Head(t) = "-" THEN 0 - digits_val(Tail(t))
    ELSE IF Head(t) = "+" THEN digits_val(Tail(t))
    ELSE digits_val(t)

\* the literal 'server_premium'
server_premium == <<"s","e","r","v","e","r","_","p","r","e","m","i","u","m">>
\* the literal 'purchase_'
purchase_prefix == <<"p","u","r","c","h","a","s","e","_">>
\* the literal 'plan_'
plan_prefix == <<"p","l","a","n","_">>
\* the literal 'main_menu'
main_menu == <<"m","a","i","n","_","m","e","n","u">>
\* the literal 'skip'
skip == <<"s","k","i","p">>

(* ------------------------------ inputs -------------------------------- *)
\* chats a forwarded message may originate from; 0 is "not forwarded from a chat"
NoChat == 0
ChatIds == {-1001}
\* file_id of an uploaded photo or document
FileIds == {"f1"}
\* what get_chat_member gives: the bot's status, or the error it raises
MemberResults == {"administrator", "member", "BadRequest", "TimedOut"}

\* /approve and /reject commands: the sender and context.args
Command(from, args) == [from |-> from, args |-> args]

\* the inputs of the runs of the whole program: the administrator (1) onboards
\* the channel 'c'; the buyer (2) checks out 'c' and the all-access plan
Inputs ==
    [starters |-> {1},
     names    |-> { <<"c">> },
     prices   |-> { <<"2","0","0">> },
     demos    |-> { <<"S","k","i","p">> },
     forwards |-> { [chat |-> -1001, member |-> "administrator", link |-> TRUE] },
     buyers   |-> {2},
     keys     |-> { <<"c">>, server_premium },
     commands |-> { Command(2, << <<"2">>, <<"c">> >>),
                    Command(1, <<>>),
                    Command(1, << <<"x">>, <<"c">> >>),
                    Command(1, << <<"2">>, <<"c">> >>),
                    Command(1, << <<"2">>, server_premium >>) },
     ticks    |-> {0, 1}]

\* the inputs of the onboarding runs
OnboardInputs ==
    [starters |-> {1, 2},
     names    |-> { <<"A"," ","b">>, <<"a","-","b">>,
                    <<" ","S","e","r","v","e","r"," ","P","r","e","m","i","u","m">> },
     prices   |-> { <<"2","0","0">>, <<"0">>, <<"a","b","c">> },
     demos    |-> { <<"S","k","i","p">>, <<"u">> },
     forwards |-> [chat : ChatIds \cup {NoChat}, member : MemberResults, link : BOOLEAN]]

None == "None"

VARIABLES
    channels,          \* table channels
    subscriptions,     \* table subscriptions
    pending_payments,  \* table pending_payments
    server_plans,      \* table server_plans
    users,             \* table users
    user_data,         \* context.user_data of every user
    conv,              \* ConversationHandler state of every user
    now,               \* last value datetime.now() returned
    pc,                \* where the handler being processed stands
    ap,                \* locals of the approve_payment being processed
    out                \* Bot API calls of the handler processed last, in order

vars == <<channels, subscriptions, pending_payments, server_plans, users,
          user_data, conv, now, pc, ap, out>>

store == <<channels, subscriptions, pending_payments, server_plans, users>>

(* ------------------------------ helpers ------------------------------- *)
\* a user_data dict: the keys it holds and their values (a key it does not hold
\* has the field's blank value)
EmptyDict ==
    [keys |-> {}, awaiting_payment |-> <<>>, channel_name |-> <<>>,
     channel_price |-> 0, channel_demo |-> <<>>]

\* locals of approve_payment: the administrator who sent the command, args[0],
\* args[1], end_date, and the channel ids unban_chat_member is still to be
\* called for
NoAp == [admin |-> 0, user_id |-> 0, plan_key |-> <<>>, end_date |-> 0, todo |-> <<>>]

\* one Bot API call: kind, the chat it addresses, the user it is about (0 when
\* none), and whether it returned (TRUE) or raised (FALSE)
Call(kind, chat, user, ok) == [kind |-> kind, chat |-> chat, user |-> user, ok |-> ok]
Reply(kind, chat) == Call(kind, chat, 0, TRUE)

(* ------------------------------- store -------------------------------- *)
get_channels_from_db_all == channels
\* get_channels_from_db: the active channel rows, in rowid order
get_channels_from_db == SelectSeq(channels, LAMBDA r : r.is_active = 1)

\* the keys of the dict get_channels_from_db returns
channel_keys == { get_channels_from_db[i].channel_key : i \in 1..Len(get_channels_from_db) }

\* channels[key] of that dict
channel_info(key) ==
    LET rows == get_channels_from_db IN
    rows[CHOOSE i \in 1..Len(rows) : rows[i].channel_key = key]

\* SELECT * FROM server_plans WHERE is_active = 1 LIMIT 1 (<<>> when no row)
active_server_plan == SelectSeq(server_plans, LAMBDA r : r.is_active = 1)

\* the callback_data of the buttons get_plans_keyboard builds, in order.
\* running_loop: whether an event loop is running in the calling thread; then
\* asyncio.run(self.get_channels_from_db()) raises RuntimeError, which the
\* bare except swallows, and no channel button is appended
get_plans_keyboard(running_loop) ==
    LET rows == get_channels_from_db
        channel_buttons ==
            IF running_loop THEN <<>>
            ELSE [i \in 1..Len(rows) |-> plan_prefix \o rows[i].channel_key]
        server_button ==
            IF active_server_plan # <<>> THEN <<plan_prefix \o server_premium>> ELSE <<>>
    IN  channel_buttons \o server_button \o <<main_menu>>

\* the plans message: the plan keys its text describes, in order, and the
\* callback_data of its keyboard
Offers(chat, text, keyboard) ==
    [kind |-> "plans", chat |-> chat, user |-> 0, ok |-> TRUE,
     text |-> text, keyboard |-> keyboard]

\* show_plans, reached by /plans or the 'Premium Plans' button (via =
\* "message") or by the callback show_plans (via = "callback", where
\* update.message is None); it runs as a coroutine of the event loop
show_plans(u, via) ==
    LET rows == get_channels_from_db
        text == [i \in 1..Len(rows) |-> rows[i].channel_key] \o
                (IF active_server_plan # <<>> THEN <<server_premium>> ELSE <<>>)
    IN  /\ pc = "idle"
        /\ IF rows = <<>>
           THEN \* 'No Premium Plans Available' through update.message
                out' = IF via = "message" THEN <<Reply("no_plans", u)>> ELSE <<>>
           ELSE out' = <<Offers(u, text, get_plans_keyboard(TRUE))>>
        /\ UNCHANGED <<store, user_data, conv, now, pc, ap>>

\* setup_database on an empty database file: the tables and the seeded plan
Init ==
    /\ channels = <<>>
    /\ subscriptions = <<>>
    /\ pending_payments = <<>>
    /\ server_plans = << [plan_name |-> "Server Premium", price |-> SERVER_PRICE, is_active |-> 1] >>
    /\ users = <<>>
    /\ user_data = [u \in Users |-> EmptyDict]
    /\ conv = [u \in Users |-> "END"]
    /\ now = 0
    /\ pc = "idle"
    /\ ap = NoAp
    /\ out = <<>>

\* INSERT OR IGNORE INTO server_plans (plan_name, price, included_channels,
\* created_date) VALUES ('Server Premium', 599, '[]', ?): the table has no
\* UNIQUE column but the AUTOINCREMENT id, so the row is never ignored
seed_server_plan(rows) ==
    Append(rows, [plan_name |-> "Server Premium", price |-> SERVER_PRICE, is_active |-> 1])

\* a further start of the process: PremiumBot() runs setup_database on the
\* database file the earlier runs left (CREATE TABLE IF NOT EXISTS keeps the
\* rows); user_data and the dialogue states start empty, as the Application is
\* built without persistence
setup_database ==
    /\ pc = "idle"
    /\ Len(server_plans) < MaxPlans
    /\ server_plans' = seed_server_plan(server_plans)
    /\ user_data' = [u \in Users |-> EmptyDict]
    /\ conv' = [u \in Users |-> "END"]
    /\ ap' = NoAp
    /\ out' = <<>>
    /\ UNCHANGED <<channels, subscriptions, pending_payments, users, now, pc>>

\* a row of users as start writes it: is_active is not named by the INSERT
\* and takes its DEFAULT 1
user_row(user_id, username, first_name, join_date) ==
    [user_id |-> user_id, username |-> username, first_name |-> first_name,
     join_date |-> join_date, is_active |-> 1]

\* INSERT OR REPLACE INTO users (user_id INTEGER PRIMARY KEY): a row with the
\* same user_id is deleted before the new row is inserted
insert_or_replace_user(rows, row) ==
    Append(SelectSeq(rows, LAMBDA r : r.user_id # row.user_id), row)

\* /start.  u: update.effective_user.id; username, first_name: of that user;
\* t: what datetime.now() returns
start(u, username, first_name, t) ==
    /\ pc = "idle"
    /\ now <= t
    /\ users' = insert_or_replace_user(users, user_row(u, username, first_name, t))
    /\ now' = t
    /\ out' = <<Reply(IF u \in ADMIN_IDS THEN "welcome_admin" ELSE "welcome", u)>>
    /\ UNCHANGED <<channels, subscriptions, pending_payments, server_plans,
                   user_data, conv, pc, ap>>

(* ------------------------- channel onboarding ------------------------- *)
add_channel_start_unchecked(u) ==
    /\ pc = "idle"
    /\ conv[u] = "END"
    /\ out' = <<Reply("ask_name", u)>>
    /\ conv' = [conv EXCEPT ![u] = "CHANNEL_NAME"]
    /\ UNCHANGED <<store, user_data, now, pc, ap>>
\* entry point of the dialogue: /addchannel or the 'Add Channel' button
add_channel_start(u) ==
    /\ pc = "idle"
    /\ conv[u] = "END"
    /\ IF u \notin ADMIN_IDS
       THEN /\ out' = <<Reply("not_authorized", u)>>
            /\ conv' = conv
       ELSE /\ out' = <<Reply("ask_name", u)>>
            /\ conv' = [conv EXCEPT ![u] = "CHANNEL_NAME"]
    /\ UNCHANGED <<store, user_data, now, pc, ap>>

add_channel_name(u, text) ==
    /\ pc = "idle"
    /\ conv[u] = "CHANNEL_NAME"
    /\ user_data' = [user_data EXCEPT ![u] =
            [@ EXCEPT !.keys = @ \cup {"channel_name"}, !.channel_name = strip(text)]]
    /\ out' = <<Reply("ask_price", u)>>
    /\ conv' = [conv EXCEPT ![u] = "CHANNEL_PRICE"]
    /\ UNCHANGED <<store, now, pc, ap>>

add_channel_price(u, text) ==
    /\ pc = "idle"
    /\ conv[u] = "CHANNEL_PRICE"
    /\ IF is_number(strip(text))
       THEN /\ user_data' = [user_data EXCEPT ![u] =
                    [@ EXCEPT !.keys = @ \cup {"channel_price"},
                              !.channel_price = number(strip(text))]]
            /\ out' = <<Reply("ask_demo", u)>>
            /\ conv' = [conv EXCEPT ![u] = "CHANNEL_DEMO"]
       ELSE /\ out' = <<Reply("invalid_price", u)>>
            /\ UNCHANGED <<user_data, conv>>
    /\ UNCHANGED <<store, now, pc, ap>>

add_channel_demo(u, text) ==
    /\ pc = "idle"
    /\ conv[u] = "CHANNEL_DEMO"
    /\ user_data' = [user_data EXCEPT ![u] =
            [@ EXCEPT !.keys = @ \cup {"channel_demo"},
                      !.channel_demo = IF lower(strip(text)) = skip THEN <<>> ELSE strip(text)]]
    /\ out' = <<Reply("ask_forward", u)>>
    /\ conv' = [conv EXCEPT ![u] = "CHANNEL_FORWARD"]
    /\ UNCHANGED <<store, now, pc, ap>>

\* channel_name.lower().replace(' ', '_').replace('-', '_')
normalize_no_hyphen(channel_name) == replace(lower(channel_name), " ", "_")
normalize(channel_name) == replace(replace(lower(channel_name), " ", "_"), "-", "_")

\* the row INSERT INTO channels writes (is_active takes its default 1)
channel_row(channel_key, channel_name, channel_id, price, demo, invite_url, by) ==
    [channel_key |-> channel_key, channel_name |-> channel_name, channel_id |-> channel_id,
     price |-> price, demo_link |-> demo, invite_link |-> invite_url, is_active |-> 1,
     created_by |-> by]

\* channel_key TEXT UNIQUE: whether the INSERT raises sqlite3.IntegrityError
unique_violated_never(rows, channel_key) == FALSE
unique_violated(rows, channel_key) == \E i \in 1..Len(rows) : rows[i].channel_key = channel_key

add_channel_forward_link_failure_ends(u, chat, member, link) ==
    /\ pc = "idle"
    /\ conv[u] = "CHANNEL_FORWARD"
    /\ UNCHANGED <<subscriptions, pending_payments, server_plans, users, now, pc, ap>>
    /\ IF chat = NoChat
       THEN /\ out' = <<Reply("not_forwarded", u)>>
            /\ UNCHANGED <<channels, user_data, conv>>
       ELSE IF member = "TimedOut"
       THEN \* not BadRequest or Forbidden: the exception leaves the handler
            /\ out' = <<Call("get_chat_member", chat, 0, FALSE)>>
            /\ UNCHANGED <<channels, user_data, conv>>
       ELSE IF member = "BadRequest"
       THEN /\ out' = <<Call("get_chat_member", chat, 0, FALSE), Reply("no_access", u)>>
            /\ UNCHANGED <<channels, user_data, conv>>
       ELSE IF member # "administrator"
       THEN /\ out' = <<Call("get_chat_member", chat, 0, TRUE), Reply("not_admin", u)>>
            /\ UNCHANGED <<channels, user_data, conv>>
       ELSE IF ~link
       THEN /\ out' = <<Call("get_chat_member", chat, 0, TRUE),
                        Call("create_chat_invite_link", chat, 0, FALSE),
                        Reply("link_failed", u)>>
            /\ channels' = channels
            /\ user_data' = [user_data EXCEPT ![u] = EmptyDict]
            /\ conv' = [conv EXCEPT ![u] = "END"]
       ELSE LET channel_name == user_data[u].channel_name
                channel_key == normalize(channel_name)
                row == channel_row(channel_key, channel_name, chat,
                                   user_data[u].channel_price, user_data[u].channel_demo,
                                   "invite_url", u)
                calls == <<Call("get_chat_member", chat, 0, TRUE),
                           Call("create_chat_invite_link", chat, 0, TRUE)>>
            IN  /\ IF unique_violated(channels, channel_key)
                   THEN /\ channels' = channels
                        /\ out' = Append(calls, Reply("key_exists", u))
                   ELSE /\ channels' = Append(channels, row)
                        /\ out' = Append(calls, Reply("channel_added", u))
                /\ user_data' = [user_data EXCEPT ![u] = EmptyDict]
                /\ conv' = [conv EXCEPT ![u] = "END"]
\* member: what get_chat_member gives ("administrator", "member", or the error it
\* raises); link: whether create_chat_invite_link returns
add_channel_forward(u, chat, member, link) ==
    /\ pc = "idle"
    /\ conv[u] = "CHANNEL_FORWARD"
    /\ UNCHANGED <<subscriptions, pending_payments, server_plans, users, now, pc, ap>>
    /\ IF chat = NoChat
       THEN /\ out' = <<Reply("not_forwarded", u)>>
            /\ UNCHANGED <<channels, user_data, conv>>
       ELSE IF member = "TimedOut"
       THEN \* not BadRequest or Forbidden: the exception leaves the handler
            /\ out' = <<Call("get_chat_member", chat, 0, FALSE)>>
            /\ UNCHANGED <<channels, user_data, conv>>
       ELSE IF member = "BadRequest"
       THEN /\ out' = <<Call("get_chat_member", chat, 0, FALSE), Reply("no_access", u)>>
            /\ UNCHANGED <<channels, user_data, conv>>
       ELSE IF member # "administrator"
       THEN /\ out' = <<Call("get_chat_member", chat, 0, TRUE), Reply("not_admin", u)>>
            /\ UNCHANGED <<channels, user_data, conv>>
       ELSE IF ~link
       THEN /\ out' = <<Call("get_chat_member", chat, 0, TRUE),
                        Call("create_chat_invite_link", chat, 0, FALSE),
                        Reply("link_failed", u)>>
            /\ UNCHANGED <<channels, user_data, conv>>
       ELSE LET channel_name == user_data[u].channel_name
                channel_key == normalize(channel_name)
                row == channel_row(channel_key, channel_name, chat,
                                   user_data[u].channel_price, user_data[u].channel_demo,
                                   "invite_url", u)
                calls == <<Call("get_chat_member", chat, 0, TRUE),
                           Call("create_chat_invite_link", chat, 0, TRUE)>>
            IN  /\ IF unique_violated(channels, channel_key)
                   THEN /\ channels' = channels
                        /\ out' = Append(calls, Reply("key_exists", u))
                   ELSE /\ channels' = Append(channels, row)
                        /\ out' = Append(calls, Reply("channel_added", u))
                /\ user_data' = [user_data EXCEPT ![u] = EmptyDict]
                /\ conv' = [conv EXCEPT ![u] = "END"]

cancel_add_channel_keeps_marker(u) ==
    /\ pc = "idle"
    /\ conv[u] # "END"
    /\ user_data' = [user_data EXCEPT ![u] =
            [EmptyDict EXCEPT !.keys = user_data[u].keys \cap {"awaiting_payment"},
                              !.awaiting_payment = user_data[u].awaiting_payment]]
    /\ conv' = [conv EXCEPT ![u] = "END"]
    /\ out' = <<Reply("cancelled", u)>>
    /\ UNCHANGED <<store, now, pc, ap>>
cancel_add_channel_keeps_fields(u) ==
    /\ pc = "idle"
    /\ conv[u] # "END"
    /\ conv' = [conv EXCEPT ![u] = "END"]
    /\ out' = <<Reply("cancelled", u)>>
    /\ UNCHANGED <<store, user_data, now, pc, ap>>
\* the fallback /cancel: every state's handler excludes commands, so it is
\* reached from each state of the dialogue
cancel_add_channel(u) ==
    /\ pc = "idle"
    /\ conv[u] # "END"
    /\ user_data' = [user_data EXCEPT ![u] = EmptyDict]
    /\ conv' = [conv EXCEPT ![u] = "END"]
    /\ out' = <<Reply("cancelled", u)>>
    /\ UNCHANGED <<store, now, pc, ap>>

(* -------------------------- purchase workflow ------------------------- *)
payment_row_submitted(user_id, channel_key, amount) ==
    [user_id |-> user_id, channel_key |-> channel_key, amount |-> amount,
     payment_proof |-> None, status |-> "submitted"]
\* the row INSERT INTO pending_payments writes: no proof, status 'pending'
payment_row(user_id, channel_key, amount) ==
    [user_id |-> user_id, channel_key |-> channel_key, amount |-> amount,
     payment_proof |-> None, status |-> "pending"]

set_awaiting_skipped(d, plan_data) == d
\* context.user_data['awaiting_payment'] = plan_data
set_awaiting(d, plan_data) ==
    [d EXCEPT !.keys = @ \cup {"awaiting_payment"}, !.awaiting_payment = plan_data]

\* del context.user_data['awaiting_payment']
del_awaiting(d) ==
    [d EXCEPT !.keys = @ \ {"awaiting_payment"}, !.awaiting_payment = <<>>]

\* query.edit_message_text(plan_details, reply_markup=...): the plan shown and
\* the callback_data of the purchase button
Details(chat, plan, price, purchase) ==
    [kind |-> "plan_details", chat |-> chat, user |-> 0, ok |-> TRUE,
     plan |-> plan, price |-> price, purchase |-> purchase]

\* data: the callback payload, 'plan_' followed by a key.
\* plan_key = query.data.split('_')[1] is the second piece of the payload
plan_selected(u, data) ==
    LET pieces   == split(data, "_")
        plan_key == pieces[2]
    IN  /\ pc = "idle"
        /\ Len(pieces) >= 2
        /\ UNCHANGED <<store, user_data, conv, now, pc, ap>>
        /\ IF plan_key = <<"s","e","r","v","e","r">> /\ Len(pieces) > 2
           THEN IF active_server_plan = <<>>
                THEN out' = <<Reply("server_not_available", u)>>
                ELSE out' = <<Details(u, active_server_plan[1].plan_name,
                                      active_server_plan[1].price,
                                      purchase_prefix \o server_premium)>>
           ELSE IF plan_key \notin channel_keys
                THEN out' = <<Reply("not_available", u)>>
                ELSE out' = <<Details(u, channel_info(plan_key).channel_name,
                                      channel_info(plan_key).price,
                                      purchase_prefix \o plan_key)>>

\* data: the callback payload, 'purchase_' followed by a key
initiate_purchase(u, data) ==
    LET plan_data == split_once_1(data, "_") IN
    /\ pc = "idle"
    /\ Len(pending_payments) < MaxPayments
    /\ UNCHANGED <<channels, subscriptions, server_plans, users, conv, now, pc, ap>>
    /\ IF plan_data = server_premium
       THEN IF active_server_plan # <<>>
            THEN /\ pending_payments' = Append(pending_payments,
                        payment_row(u, server_premium, active_server_plan[1].price))
                 /\ out' = <<Reply("purchase_text", u)>>
                 /\ user_data' = [user_data EXCEPT ![u] = set_awaiting(@, plan_data)]
            ELSE \* plan_name is unbound: UnboundLocalError leaves the handler
                 /\ out' = <<>>
                 /\ UNCHANGED <<pending_payments, user_data>>
       ELSE IF plan_data \notin channel_keys
            THEN /\ out' = <<Reply("not_available", u)>>
                 /\ UNCHANGED <<pending_payments, user_data>>
            ELSE /\ pending_payments' = Append(pending_payments,
                        payment_row(u, plan_data, channel_info(plan_data).price))
                 /\ out' = <<Reply("purchase_text", u)>>
                 /\ user_data' = [user_data EXCEPT ![u] = set_awaiting(@, plan_data)]

\* UPDATE pending_payments SET payment_proof = ?, status = 'submitted'
\* WHERE user_id = ? AND channel_key = ? AND status = 'pending'
mark_submitted_any_plan(rows, file_id, user_id, plan_key) ==
    [i \in 1..Len(rows) |->
        IF rows[i].user_id = user_id /\ rows[i].status = "pending"
        THEN [rows[i] EXCEPT !.payment_proof = file_id, !.status = "submitted"]
        ELSE rows[i]]
mark_submitted_no_proof(rows, file_id, user_id, plan_key) ==
    [i \in 1..Len(rows) |->
        IF rows[i].user_id = user_id /\ rows[i].channel_key = plan_key
              /\ rows[i].status = "pending"
        THEN [rows[i] EXCEPT !.status = "submitted"]
        ELSE rows[i]]
mark_submitted(rows, file_id, user_id, plan_key) ==
    [i \in 1..Len(rows) |->
        IF rows[i].user_id = user_id /\ rows[i].channel_key = plan_key
              /\ rows[i].status = "pending"
        THEN [rows[i] EXCEPT !.payment_proof = file_id, !.status = "submitted"]
        ELSE rows[i]]

\* the admins in the order of the list ADMIN_IDS
RECURSIVE admin_list(_)
admin_list(S) ==
    IF S = {} THEN <<>>
    ELSE LET a == CHOOSE x \in S : \A y \in S : x <= y IN <<a>> \o admin_list(S \ {a})

\* file_id: of the photo or document; sent[a]: whether send_photo to admin a returns
handle_payment_proof(u, file_id, sent) ==
    /\ pc = "idle"
    /\ conv[u] # "CHANNEL_FORWARD"   \* there the conversation takes the message
    /\ UNCHANGED <<channels, subscriptions, server_plans, users, conv, now, pc, ap>>
    /\ IF "awaiting_payment" \notin user_data[u].keys
       THEN /\ out' = <<>>
            /\ UNCHANGED <<pending_payments, user_data>>
       ELSE LET plan_key == user_data[u].awaiting_payment IN
            IF plan_key # server_premium /\ plan_key \notin channel_keys
            THEN /\ out' = <<Reply("invalid_plan", u)>>
                 /\ UNCHANGED <<pending_payments, user_data>>
            ELSE /\ pending_payments' = mark_submitted(pending_payments, file_id, u, plan_key)
                 /\ out' = <<Reply("proof_submitted", u)>> \o
                        [i \in 1..Len(admin_list(ADMIN_IDS)) |->
                            Call("send_photo", admin_list(ADMIN_IDS)[i], u,
                                 sent[admin_list(ADMIN_IDS)[i]])]
                 /\ user_data' = [user_data EXCEPT ![u] = del_awaiting(@)]

(* ----------------------------- approval ------------------------------- *)
\* the row INSERT INTO subscriptions writes (invoice_sent takes its default 0)
subscription_row_unconfirmed(user_id, channel_key, start_date, end_date) ==
    [user_id |-> user_id, channel_key |-> channel_key, start_date |-> start_date,
     end_date |-> end_date, is_active |-> 1, payment_confirmed |-> 0, invoice_sent |-> 0]
subscription_row(user_id, channel_key, start_date, end_date) ==
    [user_id |-> user_id, channel_key |-> channel_key, start_date |-> start_date,
     end_date |-> end_date, is_active |-> 1, payment_confirmed |-> 1, invoice_sent |-> 0]

\* cursor.execute(INSERT INTO subscriptions ...); conn.commit()
insert_subscription_uncommitted(rows, row) == rows
insert_subscription(rows, row) == Append(rows, row)

\* UPDATE pending_payments SET status = 'approved'
\* WHERE user_id = ? AND channel_key = ? AND status = 'submitted'
mark_approved_skipped(rows, user_id, plan_key) == rows
mark_approved_any_status(rows, user_id, plan_key) ==
    [i \in 1..Len(rows) |->
        IF rows[i].user_id = user_id /\ rows[i].channel_key = plan_key
        THEN [rows[i] EXCEPT !.status = "approved"]
        ELSE rows[i]]
mark_approved(rows, user_id, plan_key) ==
    [i \in 1..Len(rows) |->
        IF rows[i].user_id = user_id /\ rows[i].channel_key = plan_key
              /\ rows[i].status = "submitted"
        THEN [rows[i] EXCEPT !.status = "approved"]
        ELSE rows[i]]

\* UPDATE subscriptions SET invoice_sent = 1
\* WHERE user_id = ? AND channel_key = ? AND is_active = 1
mark_invoice_sent(rows, user_id, plan_key) ==
    [i \in 1..Len(rows) |->
        IF rows[i].user_id = user_id /\ rows[i].channel_key = plan_key
              /\ rows[i].is_active = 1
        THEN [rows[i] EXCEPT !.invoice_sent = 1]
        ELSE rows[i]]

\* the channel ids unban_chat_member is called for, in order
grant_targets(plan_key) ==
    IF plan_key = server_premium
    THEN [i \in 1..Len(get_channels_from_db) |-> get_channels_from_db[i].channel_id]
    ELSE <<channel_info(plan_key).channel_id>>

\* approve_payment up to its first awaited provider call: the checks, the two
\* clock reads and the committed INSERT.  a: the sender; args: context.args;
\* t1, t2: what the two reads of datetime.now() return
approve_payment(a, args, t1, t2) ==
    /\ pc = "idle"
    /\ now <= t1 /\ t1 <= t2
    /\ UNCHANGED <<channels, pending_payments, server_plans, users, user_data, conv>>
    /\ IF a \notin ADMIN_IDS
       THEN /\ out' = <<Reply("not_authorized", a)>>
            /\ UNCHANGED <<subscriptions, now, pc, ap>>
       ELSE IF Len(args) < 2
       THEN /\ out' = <<Reply("usage", a)>>
            /\ UNCHANGED <<subscriptions, now, pc, ap>>
       ELSE IF ~is_number(args[1])
       THEN \* int(args[0]) raises ValueError
            /\ out' = <<Reply("error", a)>>
            /\ UNCHANGED <<subscriptions, now, pc, ap>>
       ELSE LET user_id == number(args[1])
                plan_key == args[2]
            IN  IF plan_key = server_premium /\ active_server_plan = <<>>
                THEN /\ out' = <<Reply("plan_not_found", a)>>
                     /\ UNCHANGED <<subscriptions, now, pc, ap>>
                ELSE IF plan_key # server_premium /\ plan_key \notin channel_keys
                THEN /\ out' = <<Reply("channel_not_found", a)>>
                     /\ UNCHANGED <<subscriptions, now, pc, ap>>
                ELSE /\ Len(subscriptions) < MaxSubs
                     \* end_date = datetime.now() + timedelta(days=30), and then
                     \* start_date = datetime.now()
                     /\ subscriptions' = insert_subscription(subscriptions,
                             subscription_row(user_id, plan_key, t2, t1 + THIRTY_DAYS))
                     /\ ap' = [admin |-> a, user_id |-> user_id, plan_key |-> plan_key,
                               end_date |-> t1 + THIRTY_DAYS,
                               todo |-> grant_targets(plan_key)]
                     /\ now' = t2
                     /\ pc' = IF grant_targets(plan_key) = <<>> THEN "update" ELSE "grant"
                     /\ out' = <<>>

approve_payment_grant_raises(ok) ==
    /\ pc = "grant"
    /\ out' = Append(out, Call("unban_chat_member", Head(ap.todo), ap.user_id, ok))
    /\ ap' = IF ok THEN [ap EXCEPT !.todo = Tail(@)] ELSE NoAp
    /\ pc' = IF ~ok THEN "idle" ELSE IF Tail(ap.todo) = <<>> THEN "update" ELSE "grant"
    /\ UNCHANGED <<store, user_data, conv, now>>
approve_payment_grant_stops_at_failure(ok) ==
    /\ pc = "grant"
    /\ out' = Append(out, Call("unban_chat_member", Head(ap.todo), ap.user_id, ok))
    /\ ap' = [ap EXCEPT !.todo = IF ok THEN Tail(@) ELSE <<>>]
    /\ pc' = IF ok /\ Tail(ap.todo) # <<>> THEN "grant" ELSE "update"
    /\ UNCHANGED <<store, user_data, conv, now>>
\* one awaited context.bot.unban_chat_member(channel_id, user_id); ok: whether
\* it returns (an exception is logged and the loop goes on)
approve_payment_grant(ok) ==
    /\ pc = "grant"
    /\ out' = Append(out, Call("unban_chat_member", Head(ap.todo), ap.user_id, ok))
    /\ ap' = [ap EXCEPT !.todo = Tail(@)]
    /\ pc' = IF Tail(ap.todo) = <<>> THEN "update" ELSE "grant"
    /\ UNCHANGED <<store, user_data, conv, now>>

\* the UPDATE of pending_payments after the grants
approve_payment_update ==
    /\ pc = "update"
    /\ pending_payments' = mark_approved(pending_payments, ap.user_id, ap.plan_key)
    /\ pc' = "invoice"
    /\ UNCHANGED <<channels, subscriptions, server_plans, users, user_data, conv, now, ap, out>>

approve_payment_invoice_marks_always(ok) ==
    /\ pc = "invoice"
    /\ IF \/ ap.plan_key = server_premium /\ active_server_plan = <<>>
          \/ ap.plan_key # server_premium /\ ap.plan_key \notin channel_keys
       THEN \* send_invoice_with_links returns before sending
            UNCHANGED <<out, subscriptions>>
       ELSE /\ out' = Append(out, Call("invoice", ap.user_id, ap.user_id, ok))
            /\ subscriptions' = mark_invoice_sent(subscriptions, ap.user_id, ap.plan_key)
    /\ pc' = "reply"
    /\ UNCHANGED <<channels, pending_payments, server_plans, users, user_data, conv, now, ap>>
\* send_invoice_with_links; ok: whether send_message to the buyer returns
approve_payment_invoice(ok) ==
    /\ pc = "invoice"
    /\ IF \/ ap.plan_key = server_premium /\ active_server_plan = <<>>
          \/ ap.plan_key # server_premium /\ ap.plan_key \notin channel_keys
       THEN \* send_invoice_with_links returns before sending
            UNCHANGED <<out, subscriptions>>
       ELSE /\ out' = Append(out, Call("invoice", ap.user_id, ap.user_id, ok))
            /\ subscriptions' = IF ok
                                THEN mark_invoice_sent(subscriptions, ap.user_id, ap.plan_key)
                                ELSE subscriptions
    /\ pc' = "reply"
    /\ UNCHANGED <<channels, pending_payments, server_plans, users, user_data, conv, now, ap>>

\* the reply to the administrator that ends approve_payment
approve_payment_reply ==
    /\ pc = "reply"
    /\ out' = Append(out, Reply("approved", ap.admin))
    /\ pc' = "idle"
    /\ ap' = NoAp
    /\ UNCHANGED <<store, user_data, conv, now>>

(* ----------------------------- rejection ------------------------------ *)
\* UPDATE pending_payments SET status = 'rejected'
\* WHERE user_id = ? AND channel_key = ? AND status = 'submitted'
mark_rejected_any_status(rows, user_id, plan_key) ==
    [i \in 1..Len(rows) |->
        IF rows[i].user_id = user_id /\ rows[i].channel_key = plan_key
        THEN [rows[i] EXCEPT !.status = "rejected"]
        ELSE rows[i]]
mark_rejected(rows, user_id, plan_key) ==
    [i \in 1..Len(rows) |->
        IF rows[i].user_id = user_id /\ rows[i].channel_key = plan_key
              /\ rows[i].status = "submitted"
        THEN [rows[i] EXCEPT !.status = "rejected"]
        ELSE rows[i]]

reject_payment_error_unreported(a, args, ok) ==
    /\ pc = "idle"
    /\ UNCHANGED <<channels, subscriptions, server_plans, users, user_data, conv, now, pc, ap>>
    /\ IF a \notin ADMIN_IDS
       THEN /\ out' = <<Reply("not_authorized", a)>>
            /\ UNCHANGED pending_payments
       ELSE IF Len(args) < 2
       THEN /\ out' = <<Reply("usage", a)>>
            /\ UNCHANGED pending_payments
       ELSE IF ~is_number(args[1])
       THEN /\ out' = <<>>
            /\ UNCHANGED pending_payments
       ELSE LET user_id == number(args[1])
                plan_key == args[2]
            IN  /\ pending_payments' = mark_rejected(pending_payments, user_id, plan_key)
                /\ out' = <<Call("reject_notice", user_id, user_id, ok),
                            Reply("rejected", a)>>
reject_payment_unchecked(a, args, ok) ==
    /\ pc = "idle"
    /\ UNCHANGED <<channels, subscriptions, server_plans, users, user_data, conv, now, pc, ap>>
    /\ IF Len(args) < 2
       THEN /\ out' = <<Reply("usage", a)>>
            /\ UNCHANGED pending_payments
       ELSE IF ~is_number(args[1])
       THEN /\ out' = <<Reply("error", a)>>
            /\ UNCHANGED pending_payments
       ELSE /\ pending_payments' = mark_rejected(pending_payments, number(args[1]), args[2])
            /\ out' = <<Call("reject_notice", number(args[1]), number(args[1]), ok),
                        Reply("rejected", a)>>
\* a: the sender; args: context.args; ok: whether send_message to the buyer returns
reject_payment(a, args, ok) ==
    /\ pc = "idle"
    /\ UNCHANGED <<channels, subscriptions, server_plans, users, user_data, conv, now, pc, ap>>
    /\ IF a \notin ADMIN_IDS
       THEN /\ out' = <<Reply("not_authorized", a)>>
            /\ UNCHANGED pending_payments
       ELSE IF Len(args) < 2
       THEN /\ out' = <<Reply("usage", a)>>
            /\ UNCHANGED pending_payments
       ELSE IF ~is_number(args[1])
       THEN /\ out' = <<Reply("error", a)>>
            /\ UNCHANGED pending_payments
       ELSE LET user_id == number(args[1])
                plan_key == args[2]
            IN  /\ pending_payments' = mark_rejected(pending_payments, user_id, plan_key)
                /\ out' = <<Call("reject_notice", user_id, user_id, ok),
                            Reply("rejected", a)>>

(* --------------------------- specification ---------------------------- *)
\* the channel onboarding dialogue, with the inputs I
Onboarding(I) ==
    \/ \E u \in I.starters : add_channel_start(u)
    \/ \E u \in I.starters, text \in I.names : add_channel_name(u, text)
    \/ \E u \in I.starters, text \in I.prices : add_channel_price(u, text)
    \/ \E u \in I.starters, text \in I.demos : add_channel_demo(u, text)
    \/ \E u \in I.starters, f \in I.forwards :
          add_channel_forward(u, f.chat, f.member, f.link)
    \/ \E u \in I.starters : cancel_add_channel(u)

\* the purchase workflow and the admin decisions, with the inputs I
Payments(I) ==
    \/ \E u \in I.buyers, k \in I.keys : initiate_purchase(u, purchase_prefix \o k)
    \/ \E u \in I.buyers, f \in FileIds, sent \in [ADMIN_IDS -> BOOLEAN] :
          handle_payment_proof(u, f, sent)
    \/ \E c \in I.commands, t1, t2 \in I.ticks : approve_payment(c.from, c.args, t1, t2)
    \/ \E ok \in BOOLEAN : approve_payment_grant(ok)
    \/ approve_payment_update
    \/ \E ok \in BOOLEAN : approve_payment_invoice(ok)
    \/ approve_payment_reply
    \/ \E c \in I.commands, ok \in BOOLEAN : reject_payment(c.from, c.args, ok)

Next == Onboarding(Inputs) \/ Payments(Inputs)

Spec == Init /\ [][Next]_vars

NextOnboard == Onboarding(OnboardInputs)

SpecOnboard == Init /\ [][NextOnboard]_vars

\* setup_database on a database file in which an earlier run onboarded the
\* channel 'c' (CREATE TABLE IF NOT EXISTS keeps the rows)
InitPay ==
    /\ channels = << channel_row(<<"c">>, <<"c">>, -1001, 200, <<>>, "invite_url", 1) >>
    /\ subscriptions = <<>>
    /\ pending_payments = <<>>
    /\ server_plans = << [plan_name |-> "Server Premium", price |-> SERVER_PRICE, is_active |-> 1] >>
    /\ users = <<>>
    /\ user_data = [u \in Users |-> EmptyDict]
    /\ conv = [u \in Users |-> "END"]
    /\ now = 0
    /\ pc = "idle"
    /\ ap = NoAp
    /\ out = <<>>

\* the inputs of the payment runs: those of Inputs with the well formed
\* commands only, the clock standing still
PayInputs ==
    [Inputs EXCEPT !.ticks = {0},
                   !.commands = {c \in Inputs.commands : Len(c.args) >= 2 /\ is_number(c.args[1])}]

NextPay == Payments(PayInputs)

SpecPay == InitPay /\ [][NextPay]_vars

\* listing the offers
Browsing(I) == \E u \in I.buyers, via \in {"message", "callback"} : show_plans(u, via)

\* process starts, onboarding dialogues and buyers listing the offers
NextStart == setup_database \/ Onboarding(OnboardInputs) \/ Browsing(Inputs)

SpecStart == Init /\ [][NextStart]_vars

\* setup_database on a database file in which earlier runs onboarded the
\* channels 'c' and 'd'
InitGrant ==
    /\ channels = << channel_row(<<"c">>, <<"c">>, -1001, 200, <<>>, "invite_url", 1),
                     channel_row(<<"d">>, <<"d">>, -1002, 300, <<>>, "invite_url", 1) >>
    /\ subscriptions = <<>>
    /\ pending_payments = <<>>
    /\ server_plans = << [plan_name |-> "Server Premium", price |-> SERVER_PRICE, is_active |-> 1] >>
    /\ users = <<>>
    /\ user_data = [u \in Users |-> EmptyDict]
    /\ conv = [u \in Users |-> "END"]
    /\ now = 0
    /\ pc = "idle"
    /\ ap = NoAp
    /\ out = <<>>

\* the inputs of the all-access runs: the buyer checks out the all-access plan
\* and the administrator decides on it
GrantInputs ==
    [Inputs EXCEPT !.keys = {server_premium},
                   !.commands = {Command(1, << <<"2">>, server_premium >>)},
                   !.ticks = {0}]

NextGrant == Payments(GrantInputs)

SpecGrant == InitGrant /\ [][NextGrant]_vars

\* the tables as show_plans may find them: up to two channels, 'c' and 'd',
\* and one or two all-access rows, each row active or not (no statement of
\* the program clears is_active; the SELECTs filter on it for rows that were
\* deactivated in the database file)
OfferRows ==
    { [channel_row(k, k, -1001, 200, <<>>, "invite_url", 1) EXCEPT !.is_active = a] :
        k \in { <<"c">>, <<"d">> }, a \in {0, 1} }

OfferPlans ==
    { [plan_name |-> "Server Premium", price |-> SERVER_PRICE, is_active |-> a] :
        a \in {0, 1} }

InitOffers ==
    /\ channels \in {<<>>} \cup { <<r>> : r \in OfferRows }
                    \cup { p \in OfferRows \X OfferRows :
                                p[1].channel_key # p[2].channel_key }
    /\ server_plans \in { <<r>> : r \in OfferPlans } \cup (OfferPlans \X OfferPlans)
    /\ users = <<>>
    /\ subscriptions = <<>>
    /\ pending_payments = <<>>
    /\ user_data = [u \in Users |-> EmptyDict]
    /\ conv = [u \in Users |-> "END"]
    /\ now = 0
    /\ pc = "idle"
    /\ ap = NoAp
    /\ out = <<>>

NextOffers == Browsing(Inputs)

SpecOffers == InitOffers /\ [][NextOffers]_vars

\* the inputs of the runs in which the administrator is also a buyer: they
\* onboard the channel 'c' (a second time for the key conflict) and check out
\* the all-access plan and 'c'
SessionInputs == [Inputs EXCEPT !.buyers = {1}]

\* a buyer checks out and uploads proofs
Purchasing(I) ==
    \/ \E u \in I.buyers, k \in I.keys : initiate_purchase(u, purchase_prefix \o k)
    \/ \E u \in I.buyers, f \in FileIds, sent \in [ADMIN_IDS -> BOOLEAN] :
          handle_payment_proof(u, f, sent)

NextSession == Onboarding(SessionInputs) \/ Purchasing(SessionInputs)

SpecSession == Init /\ [][NextSession]_vars

\* the inputs of the runs with malformed commands: the administrator sends
\* /approve and /reject without arguments, with one argument, with a user id
\* that is no integer, and well formed for buyer 2 and channel 'c'
CommandInputs ==
    [Inputs EXCEPT !.keys = { <<"c">> },
                   !.ticks = {0},
                   !.commands = { Command(1, <<>>),
                                  Command(1, << <<"2">> >>),
                                  Command(1, << <<"x">>, <<"c">> >>),
                                  Command(1, << <<"2">>, <<"c">> >>) }]

NextCommands == Payments(CommandInputs)

SpecCommands == InitPay /\ [][NextCommands]_vars

\* the inputs of the runs in which users send /start: both users, a handle or
\* none, two display names, three clock values
StartInputs ==
    [senders     |-> Users,
     usernames   |-> {None, "ann"},
     first_names |-> {"Ann", "Anna"},
     ticks       |-> 0..MaxTick]

Starting(I) ==
    \E u \in I.senders, n \in I.usernames, f \in I.first_names, t \in I.ticks :
        start(u, n, f, t)

NextUsers == Starting(StartInputs)

SpecUsers == Init /\ [][NextUsers]_vars

\* the chats a forwarded message can come from: the channel of ChatIds and a
\* supergroup (forward_from_chat is also set for a message of an anonymous
\* group administrator)
GroupIds == {-2001}
\* forward_from_chat.type
chat_type(chat) == IF chat \in GroupIds THEN "supergroup" ELSE "channel"

\* the inputs of the dialogue runs: one administrator, a name and a text of
\* blanks at the name step, forwards from the channel, from the supergroup
\* and not forwarded messages
DialogueInputs ==
    [Inputs EXCEPT !.names = { <<"c">>, <<" ">> },
                   !.forwards = [chat : ChatIds \cup GroupIds \cup {NoChat},
                                 member : MemberResults, link : BOOLEAN]]

NextDialogue == Onboarding(DialogueInputs)

SpecDialogue == Init /\ [][NextDialogue]_vars

\* the inputs of the runs in which buyers open an offer and check it out: the
\* administrator onboards the channels 'c', 'A b' and 'Server x'
SelectInputs ==
    [Inputs EXCEPT !.names = { <<"c">>, <<"A"," ","b">>, <<"S","e","r","v","e","r"," ","x">> },
                   !.keys = { <<"c">>, <<"a","_","b">>, <<"s","e","r","v","e","r","_","x">>,
                              server_premium }]

\* a buyer opens an offer (button plan_<key>) or checks it out (button
\* purchase_<key>)
Selecting(I) ==
    \/ \E u \in I.buyers, k \in I.keys : plan_selected(u, plan_prefix \o k)
    \/ \E u \in I.buyers, k \in I.keys : initiate_purchase(u, purchase_prefix \o k)

NextSelect == Onboarding(SelectInputs) \/ Selecting(SelectInputs)

SpecSelect == Init /\ [][NextSelect]_vars

\* checkouts of the channels 'c' and 'd' and of the all-access plan, over the
\* tables as InitOffers draws them
CheckoutKeys == { <<"c">>, <<"d">>, server_premium }

NextCheckout ==
    \E u \in Inputs.buyers, k \in CheckoutKeys : initiate_purchase(u, purchase_prefix \o k)

SpecCheckout == InitOffers /\ [][NextCheckout]_vars

(* ------------------------------- claims ------------------------------- *)
Keys == Inputs.keys

\* c is a well formed /approve or /reject sent by an administrator
WellFormed(c) == c.from \in ADMIN_IDS /\ Len(c.args) >= 2 /\ is_number(c.args[1])
\* the (user_id, plan_key) it names
UserOf(c) == number(c.args[1])
PlanOf(c) == c.args[2]

\* this step is approve_payment / reject_payment processing the command c
ApproveStep(c) ==
    pc = "idle" /\ \E t1 \in Inputs.ticks : approve_payment(c.from, c.args, t1, now')
RejectStep(c) ==
    pc = "idle" /\ \E ok \in BOOLEAN : reject_payment(c.from, c.args, ok)

PaymentsOf(rows, u, k, status) ==
    {i \in 1..Len(rows) :
        rows[i].user_id = u /\ rows[i].channel_key = k /\ rows[i].status = status}

SubsOf(rows, u, k) ==
    {i \in 1..Len(rows) : rows[i].user_id = u /\ rows[i].channel_key = k}

HasSubmitted(u, k) == PaymentsOf(pending_payments, u, k, "submitted") # {}

\* o is one reply that reports a failure to chat a
ErrorReply(o, a) ==
    /\ Len(o) = 1
    /\ o[1].chat = a
    /\ o[1].kind \in {"error", "channel_not_found", "plan_not_found", "not_found"}

Has(o, kind) == \E i \in 1..Len(o) : o[i].kind = kind

\* C1: an approve(u, k) by an administrator while no PendingPayment of (u, k)
\* is submitted fails: it replies with an error, inserts no Subscription row
\* and goes on to no membership grant.
C1_ApproveWithoutSubmittedFails ==
    [][\A c \in Inputs.commands :
          (/\ WellFormed(c)
           /\ ~HasSubmitted(UserOf(c), PlanOf(c))
           /\ ApproveStep(c))
          => /\ subscriptions' = subscriptions
             /\ pc' = "idle"
             /\ ErrorReply(out', c.from)]_vars

\* C2: once a payment of (u, k) has been approved, a Subscription of (u, k)
\* exists and no payment of (u, k) is submitted any more, a further
\* approve(u, k) fails and leaves the number of Subscription rows as it is.
C2_ApproveIsIdempotent ==
    [][\A c \in Inputs.commands :
          (/\ WellFormed(c)
           /\ PaymentsOf(pending_payments, UserOf(c), PlanOf(c), "approved") # {}
           /\ ~HasSubmitted(UserOf(c), PlanOf(c))
           /\ SubsOf(subscriptions, UserOf(c), PlanOf(c)) # {}
           /\ ApproveStep(c))
          => /\ Len(subscriptions') = Len(subscriptions)
             /\ ErrorReply(out', c.from)]_vars

\* C3: an approve(u, k) by an administrator of an offer the buyer u checked
\* out and uploaded a proof for adds exactly one Subscription row, for (u, k)
\* and with payment_confirmed = 1; until it ends no other row is added or
\* taken away, its UPDATE turns every submitted PendingPayment of (u, k) into
\* an approved one, and they stay approved to its end.
C3_CheckoutProofApprove ==
    [][/\ \A c \in Inputs.commands :
            (/\ WellFormed(c)
             /\ HasSubmitted(UserOf(c), PlanOf(c))
             /\ ApproveStep(c))
            => /\ Len(subscriptions') = Len(subscriptions) + 1
               /\ SubSeq(subscriptions', 1, Len(subscriptions)) = subscriptions
               /\ subscriptions'[Len(subscriptions')].user_id = UserOf(c)
               /\ subscriptions'[Len(subscriptions')].channel_key = PlanOf(c)
               /\ subscriptions'[Len(subscriptions')].payment_confirmed = 1
               /\ pc' # "idle"
               /\ ap'.user_id = UserOf(c) /\ ap'.plan_key = PlanOf(c)
       /\ pc # "idle"
            => /\ Len(subscriptions') = Len(subscriptions)
               /\ \A i \in 1..Len(subscriptions) :
                     /\ subscriptions'[i].user_id = subscriptions[i].user_id
                     /\ subscriptions'[i].channel_key = subscriptions[i].channel_key
                     /\ subscriptions'[i].payment_confirmed = subscriptions[i].payment_confirmed
       /\ (pc = "update" /\ pc' # "update")
            => /\ PaymentsOf(pending_payments', ap.user_id, ap.plan_key, "submitted") = {}
               /\ PaymentsOf(pending_payments, ap.user_id, ap.plan_key, "submitted")
                     \subseteq PaymentsOf(pending_payments', ap.user_id, ap.plan_key, "approved")
       /\ pc \in {"invoice", "reply"} => pending_payments' = pending_payments
      ]_vars

\* C3 witness: checkout, proof and approve of the channel offer 'c' and of
\* the all-access offer have run: one Subscription row each, payment
\* confirmed, and the buyer's payments approved.
C3_Witness ==
    /\ pc = "idle"
    /\ Has(out, "approved")
    /\ \A k \in Keys :
          /\ Cardinality(SubsOf(subscriptions, 2, k)) = 1
          /\ \A i \in SubsOf(subscriptions, 2, k) : subscriptions[i].payment_confirmed = 1
          /\ PaymentsOf(pending_payments, 2, k, "approved") # {}
          /\ PaymentsOf(pending_payments, 2, k, "submitted") = {}

\* C4: between two handlers, every (user_id, plan_key) has at most as many
\* Subscription rows as it has approved PendingPayment rows.
C4_SubscriptionsOnlyFromApprovedPayments ==
    pc = "idle" =>
        \A u \in Users, k \in Keys :
            Cardinality(SubsOf(subscriptions, u, k))
                <= Cardinality(PaymentsOf(pending_payments, u, k, "approved"))

\* C5: a reject(u, k) by an administrator while a PendingPayment of (u, k) is
\* submitted turns the submitted rows of (u, k) into rejected ones, changes
\* no other PendingPayment row and no Subscription row.
C5_RejectAfterProof ==
    [][\A c \in Inputs.commands :
          (/\ WellFormed(c)
           /\ HasSubmitted(UserOf(c), PlanOf(c))
           /\ RejectStep(c))
          => /\ Len(pending_payments') = Len(pending_payments)
             /\ \A i \in 1..Len(pending_payments) :
                    IF i \in PaymentsOf(pending_payments, UserOf(c), PlanOf(c), "submitted")
                    THEN pending_payments'[i] = [pending_payments[i] EXCEPT !.status = "rejected"]
                    ELSE pending_payments'[i] = pending_payments[i]
             /\ subscriptions' = subscriptions]_vars

\* C5 witness: a reject has turned the buyer's submitted payment for 'c' into
\* a rejected one, and there is no Subscription for it.
C5_Witness ==
    /\ pc = "idle"
    /\ Has(out, "rejected")
    /\ PaymentsOf(pending_payments, 2, <<"c">>, "rejected") # {}
    /\ SubsOf(subscriptions, 2, <<"c">>) = {}

\* C6: a reject(u, k) by an administrator while no PendingPayment of (u, k) is
\* submitted changes no payment, sends the buyer no rejection notice and
\* gives the administrator no success confirmation.
C6_RejectWithoutSubmittedFails ==
    [][\A c \in Inputs.commands :
          (/\ WellFormed(c)
           /\ ~HasSubmitted(UserOf(c), PlanOf(c))
           /\ RejectStep(c))
          => /\ pending_payments' = pending_payments
             /\ ~Has(out', "reject_notice")
             /\ ~Has(out', "rejected")]_vars

\* C7: every (user_id, plan_key) has at most one PendingPayment row in status
\* submitted.
C7_OneSubmittedPerUserAndPlan ==
    \A u \in Users, k \in Keys :
        Cardinality(PaymentsOf(pending_payments, u, k, "submitted")) <= 1

\* C8: while an approve is processed, whenever unban_chat_member has been
\* called or the invoice has been sent, the store holds a Subscription row of
\* the approved (user_id, plan_key) with payment_confirmed = 1.
C8_GrantOnlyAfterConfirmedSubscription ==
    (pc # "idle" /\ (Has(out, "unban_chat_member") \/ Has(out, "invoice")))
        => \E i \in SubsOf(subscriptions, ap.user_id, ap.plan_key) :
               subscriptions[i].payment_confirmed = 1

\* C8 witness: an approve has called unban_chat_member and sent the invoice.
C8_Witness ==
    /\ pc = "reply"
    /\ Has(out, "unban_chat_member")
    /\ Has(out, "invoice")

\* C9: every Subscription row has end_date - start_date = 30 days.
C9_TermIsThirtyDays ==
    \A i \in 1..Len(subscriptions) :
        subscriptions[i].end_date - subscriptions[i].start_date = THIRTY_DAYS

\* key is name in lowercase with every space and hyphen replaced by '_'
IsNormalized(key, name) ==
    /\ Len(key) = Len(name)
    /\ \A i \in 1..Len(name) :
          key[i] = IF name[i] \in {" ", "-"} THEN "_" ELSE lower_char(name[i])

ValidForward(f) == f.chat # NoChat /\ f.member = "administrator" /\ f.link

\* C10: a valid channel forward at the forward step of a dialogue whose name
\* normalizes to a key no Channel row has adds exactly one Channel row, with
\* that key and name; one whose name normalizes to the key of a row reports
\* the conflict and leaves the Channel rows as they are; both end the
\* dialogue.  No two Channel rows ever share a key.
C10_OnboardingCreatesOneChannel ==
    [][/\ \A u \in OnboardInputs.starters, f \in OnboardInputs.forwards :
            (/\ pc = "idle"
             /\ ValidForward(f)
             /\ add_channel_forward(u, f.chat, f.member, f.link))
            => LET name == user_data[u].channel_name
                   taken == \E i \in 1..Len(channels) :
                               IsNormalized(channels[i].channel_key, name)
               IN  /\ conv'[u] = "END"
                   /\ IF taken
                      THEN channels' = channels /\ Has(out', "key_exists")
                      ELSE /\ Len(channels') = Len(channels) + 1
                           /\ SubSeq(channels', 1, Len(channels)) = channels
                           /\ channels'[Len(channels')].channel_name = name
                           /\ IsNormalized(channels'[Len(channels')].channel_key, name)
                           /\ Has(out', "channel_added")
       /\ \A i, j \in 1..Len(channels') :
            channels'[i].channel_key = channels'[j].channel_key => i = j
      ]_vars

\* C10 witness: the channel 'A b' was onboarded with the key a_b, and the
\* onboarding that followed, of a name with that key, reported the conflict.
C10_Witness ==
    /\ Len(channels) = 1
    /\ channels[1].channel_name = <<"A"," ","b">>
    /\ channels[1].channel_key = <<"a","_","b">>
    /\ Has(out, "key_exists")
    /\ conv[1] = "END"

\* C11: no Channel row has the reserved key server_premium.
C11_ReservedKeyNeverAChannelKey ==
    \A i \in 1..Len(channels) : channels[i].channel_key # server_premium

\* C12: the server_plans table holds exactly one row.
C12_AllAccessPlanIsSingleton == Len(server_plans) = 1

\* C13: a start of the onboarding dialogue by a user who is no administrator is
\* answered with the authorization error alone, leaves the user outside the
\* dialogue and the Channel rows as they are; such a user is never inside the
\* dialogue, and every Channel row was created by an administrator.
C13_OnlyAdminsOnboard ==
    [][/\ \A u \in OnboardInputs.starters :
            (u \notin ADMIN_IDS /\ add_channel_start(u))
            => /\ conv'[u] = "END"
               /\ out' = <<Reply("not_authorized", u)>>
               /\ channels' = channels
       /\ \A u \in Users \ ADMIN_IDS : conv'[u] = "END"
       /\ \A i \in 1..Len(channels') : channels'[i].created_by \in ADMIN_IDS
      ]_vars

\* C13 witness: after an administrator onboarded a channel, user 2, who is no
\* administrator, tried to start the dialogue and got the authorization error.
C13_Witness ==
    /\ 2 \notin ADMIN_IDS
    /\ out = <<Reply("not_authorized", 2)>>
    /\ conv[2] = "END"
    /\ Len(channels) = 1

\* C14: an /approve or /reject sent by a user who is no administrator changes
\* no PendingPayment and no Subscription row, starts no approval (so no
\* membership grant and no invoice) and sends nothing but the authorization
\* error to its sender.
C14_DecisionsAreAdminOnly ==
    [][\A c \in Inputs.commands :
          (c.from \notin ADMIN_IDS /\ (ApproveStep(c) \/ RejectStep(c)))
          => /\ pending_payments' = pending_payments
             /\ subscriptions' = subscriptions
             /\ pc' = "idle"
             /\ out' = <<Reply("not_authorized", c.from)>>]_vars

\* C14 witness: user 2, who is no administrator, sent /approve or /reject
\* while a payment of theirs was submitted, and it still is.
C14_Witness ==
    /\ 2 \notin ADMIN_IDS
    /\ pc = "idle"
    /\ out = <<Reply("not_authorized", 2)>>
    /\ HasSubmitted(2, <<"c">>)
    /\ subscriptions = <<>>

\* the rows of a table that are active, in creation order
ActiveRows(rows) == SelectSeq(rows, LAMBDA r : r.is_active = 1)

\* the plan keys on offer: the active channels in creation order, then the
\* all-access plan when a row of it is active
OffersDue ==
    [i \in 1..Len(ActiveRows(channels)) |-> ActiveRows(channels)[i].channel_key] \o
    (IF ActiveRows(server_plans) # <<>> THEN <<server_premium>> ELSE <<>>)

\* C15: listing the offers answers with one plans message whose text describes
\* every active channel in creation order and then the all-access plan when
\* it is active, and whose keyboard has one plan button for each of them in
\* the same order, before the button back to the main menu.
C15_OfferListIsChannelsThenAllAccess ==
    [][\A u \in Inputs.buyers, via \in {"message", "callback"} :
          (OffersDue # <<>> /\ show_plans(u, via))
          => /\ Len(out') = 1
             /\ out'[1].kind = "plans"
             /\ out'[1].text = OffersDue
             /\ out'[1].keyboard =
                    [i \in 1..Len(OffersDue) |-> plan_prefix \o OffersDue[i]] \o <<main_menu>>
      ]_vars

\* C16: when no channel is active and no all-access row is active, listing the
\* offers sends no plans message: nothing purchasable is presented.
C16_NoOffersWhenNothingIsActive ==
    [][\A u \in Inputs.buyers, via \in {"message", "callback"} :
          (/\ \A i \in 1..Len(channels) : channels[i].is_active # 1
           /\ \A i \in 1..Len(server_plans) : server_plans[i].is_active # 1
           /\ show_plans(u, via))
          => \A i \in 1..Len(out') : out'[i].kind # "plans"
      ]_vars

\* C16 witness: with an inactive channel and an inactive all-access plan as
\* the only rows, the buyer asked for the plans and got the notice that none
\* is available.
C16_Witness ==
    /\ channels # <<>>
    /\ \A i \in 1..Len(channels) : channels[i].is_active = 0
    /\ \A i \in 1..Len(server_plans) : server_plans[i].is_active = 0
    /\ out = <<Reply("no_plans", 2)>>

\* the chats unban_chat_member was called for, in the order of the calls
GrantsIn(o) ==
    LET calls == SelectSeq(o, LAMBDA x : x.kind = "unban_chat_member")
    IN  [i \in 1..Len(calls) |-> calls[i].chat]

\* C17: while an approve of the all-access plan is processed, once the grant
\* loop is over unban_chat_member has been called once for every active
\* channel, in creation order, whatever the calls returned; and when the
\* approve comes to its reply, no payment of (user_id, server_premium) is left
\* submitted and the invoice has been sent off.
C17_AllAccessGrantsEveryChannel ==
    ap.plan_key = server_premium =>
        /\ pc \in {"update", "invoice", "reply"} =>
              GrantsIn(out) = [i \in 1..Len(ActiveRows(channels)) |->
                                  ActiveRows(channels)[i].channel_id]
        /\ pc = "reply" =>
              /\ PaymentsOf(pending_payments, ap.user_id, server_premium, "submitted") = {}
              /\ Has(out, "invoice")

\* C17 witness: an approve of the buyer's submitted all-access payment stands
\* at its reply; the grant for the first channel raised, the grant for the
\* second returned, the payment is approved and the invoice was sent.
C17_Witness ==
    /\ pc = "reply"
    /\ ap.plan_key = server_premium
    /\ Len(out) = 3
    /\ out[1] = Call("unban_chat_member", -1001, 2, FALSE)
    /\ out[2] = Call("unban_chat_member", -1002, 2, TRUE)
    /\ out[3].kind = "invoice"
    /\ PaymentsOf(pending_payments, 2, server_premium, "approved") # {}

\* C18: in every state of the onboarding dialogue (name, price, demo, forward)
\* the cancel signal is accepted, and it ends the dialogue, leaves the user's
\* session without a collected name, price or demo link and leaves the
\* Channel rows as they are.
C18_CancelDiscardsTheDialogue ==
    [][\A u \in OnboardInputs.starters :
          (pc = "idle" /\ conv[u] \in {"CHANNEL_NAME", "CHANNEL_PRICE",
                                        "CHANNEL_DEMO", "CHANNEL_FORWARD"})
          => /\ ENABLED cancel_add_channel(u)
             /\ cancel_add_channel(u)
                  => /\ conv'[u] = "END"
                     /\ user_data'[u].keys \cap
                            {"channel_name", "channel_price", "channel_demo"} = {}
                     /\ user_data'[u].channel_name = <<>>
                     /\ user_data'[u].channel_price = 0
                     /\ user_data'[u].channel_demo = <<>>
                     /\ channels' = channels
      ]_vars

\* C18 witness: the administrator cancelled a dialogue: the dialogue is over,
\* the session is empty and there is no Channel row.
C18_Witness ==
    /\ out = <<Reply("cancelled", 1)>>
    /\ conv[1] = "END"
    /\ user_data[1] = EmptyDict
    /\ channels = <<>>

\* C19: no step removes a PendingPayment row; a new row is pending; the status
\* of a row changes only from pending to submitted, in a proof upload of the
\* row's buyer, from submitted to approved, in the UPDATE of an approve an
\* administrator sent for the row's (user_id, plan_key), and from submitted
\* to rejected, in a reject an administrator sent; approved and rejected rows
\* keep their status.
C19_PaymentStatusMovesForward ==
    [][/\ Len(pending_payments') >= Len(pending_payments)
       /\ \A i \in (Len(pending_payments) + 1)..Len(pending_payments') :
              pending_payments'[i].status = "pending"
       /\ \A i \in 1..Len(pending_payments) :
            LET old == pending_payments[i]
                new == pending_payments'[i]
            IN  \/ new.status = old.status
                \/ /\ old.status = "pending" /\ new.status = "submitted"
                   /\ pc = "idle"
                   /\ out'[1] = Reply("proof_submitted", old.user_id)
                \/ /\ old.status = "submitted" /\ new.status = "approved"
                   /\ pc = "update"
                   /\ ap.admin \in ADMIN_IDS
                   /\ ap.user_id = old.user_id /\ ap.plan_key = old.channel_key
                \/ /\ old.status = "submitted" /\ new.status = "rejected"
                   /\ pc = "idle"
                   /\ out'[Len(out')].kind = "rejected"
                   /\ out'[Len(out')].chat \in ADMIN_IDS
      ]_vars

\* C19 witness: one payment of the buyer went pending, submitted, approved,
\* another went pending, submitted, rejected.
C19_Witness ==
    /\ pc = "idle"
    /\ Len(pending_payments) = 2
    /\ \E i, j \in 1..2 : /\ pending_payments[i].status = "approved"
                          /\ pending_payments[j].status = "rejected"
                          /\ pending_payments[i].payment_proof # None
                          /\ pending_payments[j].payment_proof # None

\* C20: an upload by a buyer whose session holds no marker changes nothing and
\* sends nothing.  An upload by a buyer whose marker names the all-access
\* plan or an active channel finds a pending payment of the buyer for that
\* plan, turns every such payment into a submitted one that carries the
\* file reference, changes no other payment, calls send_photo for every
\* configured administrator, whether or not the calls for the others
\* returned, and removes the marker.
C20_ProofUploadSubmitsThePayment ==
    [][\A u \in Inputs.buyers, f \in FileIds, sent \in [ADMIN_IDS -> BOOLEAN] :
          handle_payment_proof(u, f, sent)
          => IF "awaiting_payment" \notin user_data[u].keys
             THEN /\ pending_payments' = pending_payments
                  /\ user_data' = user_data
                  /\ out' = <<>>
             ELSE LET k == user_data[u].awaiting_payment IN
                  (k = server_premium \/
                   \E i \in 1..Len(channels) :
                       channels[i].is_active = 1 /\ channels[i].channel_key = k)
                  => /\ PaymentsOf(pending_payments, u, k, "pending") # {}
                     /\ Len(pending_payments') = Len(pending_payments)
                     /\ \A i \in 1..Len(pending_payments) :
                            pending_payments'[i] =
                               IF i \in PaymentsOf(pending_payments, u, k, "pending")
                               THEN [pending_payments[i] EXCEPT !.status = "submitted",
                                                                !.payment_proof = f]
                               ELSE pending_payments[i]
                     /\ \A a \in ADMIN_IDS :
                            \E i \in 1..Len(out') : out'[i] = Call("send_photo", a, u, sent[a])
                     /\ "awaiting_payment" \notin user_data'[u].keys
      ]_vars

\* C20 witness: the buyer's upload for channel 'c' was stored with the payment,
\* now submitted; notifying administrator 1 failed, administrator 3 was
\* notified all the same, and the marker is gone.
C20_Witness ==
    /\ out = <<Reply("proof_submitted", 2),
               Call("send_photo", 1, 2, FALSE), Call("send_photo", 3, 2, TRUE)>>
    /\ "awaiting_payment" \notin user_data[2].keys
    /\ \E i \in PaymentsOf(pending_payments, 2, <<"c">>, "submitted") :
          pending_payments[i].payment_proof = "f1"

\* the price of the offer k as the tables hold it now, 0 when k is no active
\* offer: the price of the active channel with key k, or of the first active
\* all-access row
OfferPrice(k) ==
    IF k = server_premium
    THEN IF ActiveRows(server_plans) # <<>> THEN ActiveRows(server_plans)[1].price ELSE 0
    ELSE IF \E i \in 1..Len(ActiveRows(channels)) : ActiveRows(channels)[i].channel_key = k
         THEN ActiveRows(channels)[CHOOSE i \in 1..Len(ActiveRows(channels)) :
                                      ActiveRows(channels)[i].channel_key = k].price
         ELSE 0

\* k is on offer now
OfferActive(k) ==
    IF k = server_premium
    THEN ActiveRows(server_plans) # <<>>
    ELSE \E i \in 1..Len(channels) : channels[i].is_active = 1 /\ channels[i].channel_key = k

\* C21: a purchase of an active offer k by buyer u appends exactly one
\* PendingPayment row, (u, k, the offer's price now, no proof, pending), and
\* sets the marker of u to k; a purchase of a key that is no active channel,
\* or of the all-access plan while it is inactive, leaves the PendingPayment
\* rows and the session as they are.
C21_CheckoutRevalidatesTheOffer ==
    [][\A u \in Inputs.buyers, k \in CheckoutKeys :
          initiate_purchase(u, purchase_prefix \o k)
          => IF OfferActive(k)
             THEN /\ pending_payments' = Append(pending_payments,
                        [user_id |-> u, channel_key |-> k, amount |-> OfferPrice(k),
                         payment_proof |-> None, status |-> "pending"])
                  /\ "awaiting_payment" \in user_data'[u].keys
                  /\ user_data'[u].awaiting_payment = k
             ELSE /\ pending_payments' = pending_payments
                  /\ user_data' = user_data
      ]_vars

\* C21 witness: with channel 'c' active and the all-access plan inactive, the
\* buyer bought 'c' and then tried the all-access plan: one pending payment,
\* for 'c' at its price, and the marker still names 'c'.
C21_Witness ==
    /\ OfferActive(<<"c">>)
    /\ ~OfferActive(server_premium)
    /\ Len(pending_payments) = 1
    /\ pending_payments[1] = [user_id |-> 2, channel_key |-> <<"c">>, amount |-> 200,
                              payment_proof |-> None, status |-> "pending"]
    /\ user_data[2].awaiting_payment = <<"c">>
    /\ out = <<>>

\* C22: for every active channel key k, underscores included, the payload
\* plan_<k> makes plan_selected show the channel k with the purchase button
\* purchase_<k>, and the payload purchase_<k> makes initiate_purchase record
\* a payment for k.
C22_CallbackPayloadsRoundTrip ==
    [][\A u \in SelectInputs.buyers, k \in SelectInputs.keys \ {server_premium} :
          k \in channel_keys
          => /\ plan_selected(u, plan_prefix \o k)
                => out' = <<Details(u, channel_info(k).channel_name, channel_info(k).price,
                                    purchase_prefix \o k)>>
             /\ initiate_purchase(u, purchase_prefix \o k)
                => pending_payments'[Len(pending_payments')].channel_key = k
      ]_vars

\* the buyer u got the invoice of plan k: send_invoice_with_links marked it
InvoiceReceived(u, k) ==
    \E i \in SubsOf(subscriptions, u, k) : subscriptions[i].invoice_sent = 1

\* C23: of an approve and a reject of one submitted payment that arrive
\* together exactly one takes effect: between the Subscription INSERT of an
\* approve and its reply no payment turns rejected, and a buyer whose payment
\* of (u, k) was approved and invoiced, with no further payment of (u, k)
\* submitted, receives no rejection notice from the reject.
C23_OneDecisionTakesEffect ==
    [][/\ pc # "idle"
          => \A i \in 1..Len(pending_payments) :
                pending_payments'[i].status = "rejected"
                => pending_payments[i].status = "rejected"
       /\ \A c \in PayInputs.commands :
            (/\ WellFormed(c)
             /\ PaymentsOf(pending_payments, UserOf(c), PlanOf(c), "approved") # {}
             /\ ~HasSubmitted(UserOf(c), PlanOf(c))
             /\ InvoiceReceived(UserOf(c), PlanOf(c))
             /\ RejectStep(c))
            => \A i \in 1..Len(out') : ~(out'[i].kind = "reject_notice" /\ out'[i].ok)
      ]_vars

\* C24: every Channel row has a price above zero, and the price step of the
\* dialogue keeps the dialogue at the price step, with nothing stored, for a
\* text that is no number or a number not above zero.
C24_ChannelPricesArePositive ==
    [][/\ \A i \in 1..Len(channels') : channels'[i].price > 0
       /\ \A u \in OnboardInputs.starters, text \in OnboardInputs.prices :
            (/\ add_channel_price(u, text)
             /\ (is_number(text) => number(text) <= 0))
            => /\ conv'[u] = "CHANNEL_PRICE"
               /\ user_data' = user_data
      ]_vars

\* C25: a forward at the forward step whose origin chat is not a channel is
\* rejected: the dialogue stays at the forward step and no Channel row is
\* added.
C25_ForwardFromNonChannelIsRejected ==
    [][\A u \in DialogueInputs.starters, f \in DialogueInputs.forwards :
          (/\ f.chat # NoChat
           /\ chat_type(f.chat) # "channel"
           /\ add_channel_forward(u, f.chat, f.member, f.link))
          => /\ conv'[u] = "CHANNEL_FORWARD"
             /\ channels' = channels
      ]_vars

\* C27: a name that is empty after trimming keeps the dialogue at the name
\* step, and no Channel row has an empty name or an empty key.
C27_ChannelNamesAreNotEmpty ==
    [][/\ \A u \in DialogueInputs.starters, text \in DialogueInputs.names :
            (strip(text) = <<>> /\ add_channel_name(u, text))
            => conv'[u] = "CHANNEL_NAME"
       /\ \A i \in 1..Len(channels') :
            channels'[i].channel_name # <<>> /\ channels'[i].channel_key # <<>>
      ]_vars

\* C26: a forward at the forward step that fails a validation (the bot is no
\* administrator of the chat, the membership query raises, or the invite link
\* cannot be created) leaves the dialogue at the forward step, the collected
\* name, price and demo link as they are and the Channel rows as they are, so
\* that a valid forward is still accepted there.
C26_FailedForwardKeepsTheDialogue ==
    [][\A u \in OnboardInputs.starters, f \in OnboardInputs.forwards :
          (/\ f.chat # NoChat
           /\ ~ValidForward(f)
           /\ add_channel_forward(u, f.chat, f.member, f.link))
          => /\ conv'[u] = "CHANNEL_FORWARD"
             /\ user_data' = user_data
             /\ {"channel_name", "channel_price", "channel_demo"} \subseteq user_data'[u].keys
             /\ channels' = channels
      ]_vars

\* C26 witness: the invite link of the dialogue of administrator 1 could not
\* be created; the dialogue is at the forward step with its name and price.
C26_Witness ==
    /\ Has(out, "link_failed")
    /\ conv[1] = "CHANNEL_FORWARD"
    /\ user_data[1].channel_name = <<"A", " ", "b">>
    /\ user_data[1].channel_price = 200
    /\ channels = <<>>

\* C28: an approve that has committed its Subscription goes on to the UPDATE
\* of the payment whatever the membership grants return: from the grants it
\* leaves only through the UPDATE, the UPDATE turns every submitted payment of
\* its (u, k) approved, and the invoice and the reply that follow, failing or
\* not, leave the payments as they are.
C28_ApprovalIsRecorded ==
    [][/\ pc \in {"grant", "update"}
          => /\ SubsOf(subscriptions, ap.user_id, ap.plan_key) # {}
             /\ pc' \in {"grant", "update", "invoice"}
             /\ pc' # "invoice" => pending_payments' = pending_payments
             /\ pc' = "invoice"
                => \A i \in 1..Len(pending_payments) :
                      pending_payments'[i] =
                        IF i \in PaymentsOf(pending_payments, ap.user_id, ap.plan_key, "submitted")
                        THEN [pending_payments[i] EXCEPT !.status = "approved"]
                        ELSE pending_payments[i]
       /\ pc \in {"invoice", "reply"} => pending_payments' = pending_payments
      ]_vars

\* C28 witness: the approve of the submitted payment of buyer 2 for 'c' has
\* ended; its membership grant raised and its invoice could not be sent, and
\* the payment is approved.
C28_Witness ==
    /\ pc = "idle"
    /\ out = << Call("unban_chat_member", -1001, 2, FALSE),
                Call("invoice", 2, 2, FALSE),
                Reply("approved", 1) >>
    /\ PaymentsOf(pending_payments, 2, <<"c">>, "approved") # {}
    /\ PaymentsOf(pending_payments, 2, <<"c">>, "submitted") = {}
    /\ SubsOf(subscriptions, 2, <<"c">>) # {}

\* C29: when a membership grant of an approve raised, the reply that ends the
\* approve tells the administrator so: it is not the plain confirmation.
C29_FailedGrantIsReported ==
    [][(/\ approve_payment_reply
        /\ \E i \in 1..Len(out) : out[i].kind = "unban_chat_member" /\ ~out[i].ok)
       => ~Has(out', "approved")
      ]_vars

\* C30: the session of a buyer holds one marker: a checkout that records a
\* payment sets it to its plan, whatever it named before, and a proof upload
\* turns submitted only the pending payments of the plan the marker names,
\* leaves the buyer's payments of every other plan as they are and removes
\* the marker.
C30_SingleMarker ==
    [][\A u \in PayInputs.buyers :
          /\ \A k \in PayInputs.keys :
                (/\ initiate_purchase(u, purchase_prefix \o k)
                 /\ pending_payments' # pending_payments)
                => /\ "awaiting_payment" \in user_data'[u].keys
                   /\ user_data'[u].awaiting_payment = k
          /\ \A f \in FileIds, sent \in [ADMIN_IDS -> BOOLEAN] :
                (/\ handle_payment_proof(u, f, sent)
                 /\ "awaiting_payment" \in user_data[u].keys)
                => /\ \A i \in 1..Len(pending_payments) :
                        IF /\ pending_payments[i].user_id = u
                           /\ pending_payments[i].channel_key = user_data[u].awaiting_payment
                           /\ pending_payments[i].status = "pending"
                        THEN pending_payments'[i].status = "submitted"
                        ELSE pending_payments'[i] = pending_payments[i]
                   /\ "awaiting_payment" \notin user_data'[u].keys
      ]_vars

\* C30 witness: buyer 2 checked out 'c', then the all-access plan, then
\* uploaded a proof: the payment for 'c' is pending without proof, the one for
\* the all-access plan is submitted, and the marker is gone.
C30_Witness ==
    /\ Len(pending_payments) = 2
    /\ pending_payments[1] = [user_id |-> 2, channel_key |-> <<"c">>, amount |-> 200,
                              payment_proof |-> None, status |-> "pending"]
    /\ pending_payments[2].channel_key = server_premium
    /\ pending_payments[2].status = "submitted"
    /\ "awaiting_payment" \notin user_data[2].keys
    /\ Has(out, "proof_submitted")

\* the rows of subscriptions whose invoice_sent turns from 0 to 1 in this step
InvoiceMarked ==
    {i \in 1..Len(subscriptions) :
        subscriptions[i].invoice_sent = 0 /\ subscriptions'[i].invoice_sent = 1}

\* C31: a Subscription is inserted with invoice_sent 0, and invoice_sent of a
\* Subscription of (u, k) turns 1 only in the invoice step of an approve of
\* (u, k) whose send_message to the buyer returned; an invoice step whose
\* send_message raises, or that sends nothing because the plan is no longer
\* active, leaves the Subscription rows and the payments as they are, the
\* Subscription and the approved payment included.
C31_InvoiceSentOnlyAfterDelivery ==
    [][/\ Len(subscriptions') > Len(subscriptions)
          => subscriptions'[Len(subscriptions')].invoice_sent = 0
       /\ InvoiceMarked # {}
          => /\ pc = "invoice"
             /\ \E i \in 1..Len(out') :
                   /\ out'[i] = Call("invoice", ap.user_id, ap.user_id, TRUE)
                   /\ i > Len(out)
             /\ \A i \in InvoiceMarked :
                   /\ subscriptions[i].user_id = ap.user_id
                   /\ subscriptions[i].channel_key = ap.plan_key
       /\ (pc = "invoice" /\ ~(\E i \in 1..Len(out') : i > Len(out) /\ out'[i].ok))
          => /\ subscriptions' = subscriptions
             /\ pending_payments' = pending_payments
      ]_vars

\* C31 witness: the approve of the payment of buyer 2 for 'c' has ended, its
\* invoice could not be sent: the payment is approved, the Subscription is
\* there and its invoice_sent is 0.
C31_Witness ==
    /\ pc = "idle"
    /\ Has(out, "approved")
    /\ \E i \in 1..Len(out) : out[i] = Call("invoice", 2, 2, FALSE)
    /\ PaymentsOf(pending_payments, 2, <<"c">>, "approved") # {}
    /\ Len(subscriptions) = 1
    /\ subscriptions[1].channel_key = <<"c">>
    /\ subscriptions[1].invoice_sent = 0

\* the rows of users with user_id u
UsersOf(rows, u) == {i \in 1..Len(rows) : rows[i].user_id = u}

\* C32: no step removes a user from the table users, and a /start of a user
\* who has a row leaves that user with one row whose join_date and is_active
\* are those of the row before.
C32_RepeatedStartKeepsJoinDate ==
    [][/\ \A i \in 1..Len(users) : UsersOf(users', users[i].user_id) # {}
       /\ \A u \in StartInputs.senders, n \in StartInputs.usernames,
             f \in StartInputs.first_names, t \in StartInputs.ticks :
            (UsersOf(users, u) # {} /\ start(u, n, f, t))
            => /\ Cardinality(UsersOf(users', u)) = 1
               /\ \A i \in UsersOf(users, u), j \in UsersOf(users', u) :
                     /\ users'[j].join_date = users[i].join_date
                     /\ users'[j].is_active = users[i].is_active
      ]_vars

\* c is an /approve or /reject of an administrator with fewer than two
\* arguments or a user id that is no integer
Malformed(c) ==
    c.from \in ADMIN_IDS /\ (Len(c.args) < 2 \/ ~is_number(c.args[1]))

\* C33: an /approve or /reject of an administrator with fewer than two
\* arguments is answered with the usage text, one whose user id is no integer
\* with an error message; both leave every PendingPayment and Subscription row
\* as it is and start no further step of the handler.
C33_MalformedCommandsHaveNoEffect ==
    [][\A c \in CommandInputs.commands :
          (/\ Malformed(c)
           /\ ApproveStep(c) \/ RejectStep(c))
          => /\ out' = <<Reply(IF Len(c.args) < 2 THEN "usage" ELSE "error", c.from)>>
             /\ pending_payments' = pending_payments
             /\ subscriptions' = subscriptions
             /\ pc' = "idle"
      ]_vars

\* C33 witness: while the payment of buyer 2 for 'c' is submitted the
\* administrator sent a command whose user id is no integer: the error reply
\* is out, the payment is still submitted and there is no Subscription.
C33_Witness ==
    /\ out = <<Reply("error", 1)>>
    /\ pc = "idle"
    /\ HasSubmitted(2, <<"c">>)
    /\ subscriptions = <<>>

\* C34: a step that ends the onboarding dialogue of a user (cancel, channel
\* created, key conflict) leaves that user's session empty, the marker of the
\* purchase workflow included; a proof upload of a user without marker
\* changes no payment and answers nothing, so a payment checked out before
\* stays pending.
C34_EndOfOnboardingClearsTheSession ==
    [][\A u \in SessionInputs.starters :
          /\ (conv[u] # "END" /\ conv'[u] = "END")
             => /\ user_data'[u] = EmptyDict
                /\ "awaiting_payment" \notin user_data'[u].keys
          /\ \A f \in FileIds, sent \in [ADMIN_IDS -> BOOLEAN] :
                (/\ "awaiting_payment" \notin user_data[u].keys
                 /\ handle_payment_proof(u, f, sent))
                => /\ pending_payments' = pending_payments
                   /\ out' = <<>>
      ]_vars

\* C34 witness: the administrator checked out the all-access plan, ended an
\* onboarding dialogue and then uploaded a proof: the upload was ignored, the
\* payment is pending without proof and the session holds no marker.
C34_Witness ==
    /\ out = <<>>
    /\ conv[1] = "END"
    /\ Len(pending_payments) = 1
    /\ pending_payments[1] = [user_id |-> 1, channel_key |-> server_premium,
                              amount |-> SERVER_PRICE, payment_proof |-> None,
                              status |-> "pending"]
    /\ "awaiting_payment" \notin user_data[1].keys

\* C35: a PendingPayment row holds a proof reference exactly when its status
\* is not pending: a pending row has none, and every submitted, approved or
\* rejected row has the one its upload stored.
C35_ProofIffNotPending ==
    \A i \in 1..Len(pending_payments) :
        /\ pending_payments[i].status \in {"pending", "submitted", "approved", "rejected"}
        /\ (pending_payments[i].payment_proof # None)
              <=> (pending_payments[i].status # "pending")

\* C35 witness: the first payment of buyer 2 was rejected and holds its proof,
\* the second is pending and holds none.
C35_Witness ==
    /\ Len(pending_payments) = 2
    /\ pending_payments[1].status = "rejected"
    /\ pending_payments[1].payment_proof = "f1"
    /\ pending_payments[2].status = "pending"
    /\ pending_payments[2].payment_proof = None

====
